---- MODULE Spec2Model ----
(***************************************************************************)
(* Model of the analysis scheduler of Lucid (Lucid/src/state/store.ts):    *)
(* the session clock, the pre-computed call schedule, the dispatch of      *)
(* window-analysis requests, their completion handlers, the result cache   *)
(* and the completed set.                                                  *)
(*                                                                         *)
(* Time is the value of Date.now() in milliseconds.  The interval timer    *)
(* fires every TickMs; the completion handlers of the asynchronous         *)
(* requests run between two firings of the timer (single-threaded event    *)
(* loop), each as one atomic step.                                         *)
(***************************************************************************)
EXTENDS Integers, Sequences, FiniteSets, TLC

\* ---------------------------------------------------------------- bounds
\* Date.now() when the store is created.
Epoch == 1000
\* Number of analysis requests the environment lets fail.
MaxFailures == 3
\* Number of times the user resets the session (logo click).
MaxResets == 2
\* Seconds of wall-clock time the specification with resets runs for.
Horizon == 17
\* Largest video duration drawn by the schedule-building specification.
MaxDuration == 100
\* Longest telemetry history handed to computeStatus.
MaxHistory == 4
\* Number of classifier calls a page makes in a row.
MaxCalls == 3
\* Longest list of analysis results a page renders.
MaxWindows == 3

\* ------------------------------------------------------ program constants
SAMPLE_INTERVAL_SECONDS == 15
MIN_REQUIRED_SAMPLES == 2
MIN_ANALYSIS_DURATION == SAMPLE_INTERVAL_SECONDS * MIN_REQUIRED_SAMPLES
\* the same three constants in the 30-second variant of the store
SAMPLE_INTERVAL_SECONDS_30 == 30
MIN_REQUIRED_SAMPLES_30 == 3
MIN_ANALYSIS_DURATION_30 == SAMPLE_INTERVAL_SECONDS_30 * MIN_REQUIRED_SAMPLES_30
maxRetries == 3
retryDelay == 5000
TickMs == 1000

\* ------------------------------------------------------------ the values
\* videoDuration: number | null.  A number may be NaN.
NullDuration == [kind |-> "null", val |-> 0]
NaNDuration == [kind |-> "nan", val |-> 0]
Num(n) == [kind |-> "num", val |-> n]

\* Durations the footage-info endpoint reports in the scheduler specification.
VideoDurations == {Num(20), Num(45)}
\* Whole timer periods a response takes while the timer runs: it arrives
\* before the next firing, or one sampling interval later (after the next
\* window was dispatched).  A response may also never arrive.
Latencies == {0, SAMPLE_INTERVAL_SECONDS}
\* Durations the schedule-building specification starts from.
DurationInputs == {NullDuration, NaNDuration} \cup {Num(n) : n \in 0..MaxDuration}

VARIABLES
  now,                     \* Date.now()
  app,                     \* App component: "created", "mounted", "unmounted"
  globalTimerInterval,     \* the handle of the tick timer, NoTimer for null
  intervals,               \* the interval timers set and not cleared
  timersCreated,           \* number of window.setInterval calls so far
  stopThreshold,           \* stopThreshold captured by the active timer's closure
  appStartTime,
  globalElapsedTime,
  lastApiCallTime,
  secondsSinceLastApiCall,
  analysisResults,         \* sequence of results, in completion order
  currentSessionId,        \* the number n of `session_${n}`
  videoDuration,
  analysisCache,           \* function from <<sessionId, timestamp>> to the cached result
  scheduledCalls,          \* callTracker.scheduledCalls
  completedCalls,          \* Set<number>
  inflight,                \* performVideoAnalysis calls awaiting /api/window
  reqLog,                  \* every request sent to /api/window, in order
  videoInfoPending,        \* fetchVideoInfo awaiting /api/footage/info
  resetsPending,           \* resetGlobalTimer calls awaiting /api/session/reset
  resets,                  \* number of resets started
  failures,                \* number of requests that failed
  ev,                      \* the handler that ran last
  latest,                  \* computeStatus: the latest telemetry sample
  history,                 \* computeStatus: the telemetry history
  thresholds,              \* computeStatus: the thresholds
  statusText,              \* the status computeStatus returned, or "none"
  sample,                  \* assessDriverState: the analysis result
  assessed,                \* what assessDriverState returned, or NotAssessed
  dimPoint,                \* what hasQualityWarning returned for the sample
  callLog,                 \* the classifier calls made so far: arguments and output
  windows,                 \* the page's copy of analysisResults: the windows
  timelinePoints,          \* the page's timeline, derived from the windows
  truckAlerts              \* the page's alerts, derived from the timeline

timerVars == <<globalTimerInterval, intervals, timersCreated>>

storeVars == <<now, app, timerVars, stopThreshold, appStartTime, globalElapsedTime,
               lastApiCallTime, secondsSinceLastApiCall, analysisResults,
               currentSessionId, videoDuration, analysisCache, scheduledCalls,
               completedCalls, inflight, reqLog, videoInfoPending, resetsPending,
               resets, failures, ev>>

statusVars == <<latest, history, thresholds, statusText>>

assessVars == <<sample, assessed, dimPoint>>

viewVars == <<windows, timelinePoints, truckAlerts>>

classifierVars == <<statusVars, assessVars, callLog, viewVars>>

vars == <<storeVars, classifierVars>>

\* ------------------------------------------------------ globalTimerInterval
\* let globalTimerInterval: number | null = null
NoTimer == 0

timerActive == globalTimerInterval # NoTimer

\* if (globalTimerInterval) { clearInterval(globalTimerInterval); globalTimerInterval = null; }
StopGlobalTimer ==
  /\ intervals' = intervals \ {globalTimerInterval}
  /\ globalTimerInterval' = NoTimer
  /\ timersCreated' = timersCreated

\* A start that sets the new interval without clearing the one in place.
InstallTimerKeepingOld ==
  /\ timersCreated' = timersCreated + 1
  /\ intervals' = intervals \cup {timersCreated'}
  /\ globalTimerInterval' = timersCreated'

\* The head and the tail of startGlobalTimer: the interval in place, if any,
\* is cleared, and globalTimerInterval = window.setInterval(..., 1000); the
\* handles the browser returns count up from 1.
InstallTimer ==
  /\ timersCreated' = timersCreated + 1
  /\ intervals' = (intervals \ {globalTimerInterval}) \cup {timersCreated'}
  /\ globalTimerInterval' = timersCreated'

\* A response to a request sent at time `at` can arrive now.  Once the timer
\* is stopped the clock of the model stands still, and any response can arrive.
Responsive(at) == ~timerActive \/ ((now - at) \div TickMs) \in Latencies

\* How the three collaborator calls of a successful window request end:
\* /v1/state, /v1/sim/hr and /v1/sim/hrv each answer ok, answer with a
\* status that is not ok, or throw; /v1/sim/hrv is skipped when, and only
\* when, /v1/sim/hr threw.
CollaboratorOutcomes == {"ok", "status", "throw"}

Collaborations ==
  {c \in [state : CollaboratorOutcomes, hr : CollaboratorOutcomes,
          hrv : CollaboratorOutcomes \cup {"skipped"}] :
     (c.hr = "throw") <=> (c.hrv = "skipped")}

AllOk == [state |-> "ok", hr |-> "ok", hrv |-> "ok"]

\* How a request to /api/session/reset ends: the response is ok, it is not
\* ok, or the fetch (or the reading of the body) throws.
ResetOutcomes == {"ok", "status", "throw"}

\* reset: how the reset request of resetGlobalTimer ended; clear: how the one
\* of startGlobalTimer's clearData ends ("none" when the handler sent none).
Event(op, ts, req, invoked) ==
  [op |-> op, ts |-> ts, req |-> req, invoked |-> invoked, collab |-> AllOk,
   reset |-> "none", clear |-> "none"]

Max(a, b) == IF a >= b THEN a ELSE b

\* ------------------------------------------------------- getStopThreshold
StopThresholdForNoFloor(minDuration, vd) ==
  IF vd.kind # "num" THEN minDuration ELSE vd.val

StopThresholdFor(minDuration, vd) ==
  IF vd.kind # "num" THEN minDuration ELSE Max(vd.val, minDuration)

getStopThreshold(vd) == StopThresholdFor(MIN_ANALYSIS_DURATION, vd)

getStopThreshold30(vd) == StopThresholdFor(MIN_ANALYSIS_DURATION_30, vd)

\* ------------------------------------------- the schedule-building loop
\* for (timestamp = interval; timestamp <= stopThreshold; timestamp += interval)
\*   scheduledCalls.push({ timestamp, status: 'pending', attempts: 0 })
\* lastAttempt is absent (undefined); it is 0 here, which `!call.lastAttempt`
\* does not tell from undefined.
RECURSIVE ScheduleLoopStrict(_, _, _, _)
ScheduleLoopStrict(acc, timestamp, interval, threshold) ==
  IF timestamp < threshold
  THEN ScheduleLoopStrict(Append(acc, [timestamp |-> timestamp, status |-> "pending",
                                       attempts |-> 0, lastAttempt |-> 0]),
                          timestamp + interval, interval, threshold)
  ELSE acc

RECURSIVE ScheduleLoop(_, _, _, _)
ScheduleLoop(acc, timestamp, interval, threshold) ==
  IF timestamp <= threshold
  THEN ScheduleLoop(Append(acc, [timestamp |-> timestamp, status |-> "pending",
                                 attempts |-> 0, lastAttempt |-> 0]),
                    timestamp + interval, interval, threshold)
  ELSE acc

BuildSchedule(interval, threshold) == ScheduleLoop(<<>>, interval, interval, threshold)

\* ------------------------------------------------------------------ Init
StoreCreated ==
  /\ now = Epoch
  /\ app = "created"
  /\ globalTimerInterval = NoTimer
  /\ intervals = {}
  /\ timersCreated = 0
  /\ stopThreshold = 0
  /\ appStartTime = Epoch
  /\ globalElapsedTime = 0
  /\ lastApiCallTime = 0
  /\ secondsSinceLastApiCall = 0
  /\ analysisResults = <<>>
  /\ currentSessionId = Epoch
  /\ videoDuration = NullDuration
  /\ analysisCache = <<>>
  /\ scheduledCalls = <<>>
  /\ completedCalls = {}
  /\ inflight = {}
  /\ reqLog = <<>>
  /\ videoInfoPending = FALSE
  /\ resetsPending = 0
  /\ resets = 0
  /\ failures = 0
  /\ ev = Event("create", 0, 0, <<>>)

\* ------------------------------------------------------------ computeStatus
\* Ratios (perclos, duty ratios) are counted in hundredths: 0.4 is 40.
\* (perclos_30s of an analysis result is counted in ten-thousandths.)
\* A Telemetry sample; `present` is FALSE for an undefined `latest`.
Telemetry(perclos, headDownDegrees, yawnCount30s, heartRate, hrvRmssd) ==
  [present |-> TRUE, perclos |-> perclos, headDownDegrees |-> headDownDegrees,
   yawnCount30s |-> yawnCount30s, heartRate |-> heartRate, hrvRmssd |-> hrvRmssd]

NoTelemetry ==
  [present |-> FALSE, perclos |-> 0, headDownDegrees |-> 0,
   yawnCount30s |-> 0, heartRate |-> 0, hrvRmssd |-> 0]

DefaultThresholds ==
  [perclosHigh |-> 40, headDownDegHigh |-> 25, yawnCountHigh |-> 3,
   hrLow |-> 50, hrvLow |-> 20]

ThresholdInputs == {DefaultThresholds, [DefaultThresholds EXCEPT !.perclosHigh = 30]}

TelemetryInputs ==
  {Telemetry(p, h, y, hr, hrv) :
     p \in {10, 20, 30, 40}, h \in {24, 25}, y \in {2, 3},
     hr \in {0, 50, 51}, hrv \in {0, 20, 21}}

HistoryInputs ==
  UNION {[1..n -> {[perclos |-> p] : p \in {10, 20, 30}}] : n \in 0..MaxHistory}

\* history.slice(-n): the last n elements, all of them when there are fewer.
SliceLast(h, n) == IF Len(h) <= n THEN h ELSE SubSeq(h, Len(h) - n + 1, Len(h))

WorseningNonStrict(h) ==
  LET recent == SliceLast(h, 3) IN
    /\ Len(recent) >= 3
    /\ recent[3].perclos >= recent[2].perclos
    /\ recent[2].perclos >= recent[1].perclos

Worsening(h) ==
  LET recent == SliceLast(h, 3) IN
    /\ Len(recent) >= 3
    /\ recent[3].perclos > recent[2].perclos
    /\ recent[2].perclos > recent[1].perclos

Weight(b, w) == IF b THEN w ELSE 0

\* computeStatus where a reading of 0 counts as a low reading.
computeStatusZeroIsLow(l, h, th) ==
  IF ~l.present THEN "OK"
  ELSE
    LET overPerclos == l.perclos >= th.perclosHigh
        headDown == l.headDownDegrees >= th.headDownDegHigh
        yawny == l.yawnCount30s >= th.yawnCountHigh
        lowHR == l.heartRate <= th.hrLow
        lowHRV == l.hrvRmssd <= th.hrvLow
        riskScore == Weight(overPerclos, 2) + Weight(headDown, 1) + Weight(yawny, 1)
                       + Weight(lowHR, 1) + Weight(lowHRV, 1)
    IN IF riskScore >= 3 /\ overPerclos THEN "ASLEEP"
       ELSE IF riskScore >= 2 /\ (overPerclos \/ Worsening(h)) THEN "DROWSY_SOON"
       ELSE "OK"

computeStatus(l, h, th) ==
  IF ~l.present THEN "OK"
  ELSE
    LET overPerclos == l.perclos >= th.perclosHigh
        headDown == l.headDownDegrees >= th.headDownDegHigh
        yawny == l.yawnCount30s >= th.yawnCountHigh
        lowHR == l.heartRate > 0 /\ l.heartRate <= th.hrLow
        lowHRV == l.hrvRmssd > 0 /\ l.hrvRmssd <= th.hrvLow
        riskScore == Weight(overPerclos, 2) + Weight(headDown, 1) + Weight(yawny, 1)
                       + Weight(lowHR, 1) + Weight(lowHRV, 1)
    IN IF riskScore >= 3 /\ overPerclos THEN "ASLEEP"
       ELSE IF riskScore >= 2 /\ (overPerclos \/ Worsening(h)) THEN "DROWSY_SOON"
       ELSE "OK"

\* -------------------------------------------------------- assessDriverState
\* An AnalysisResult of the 30-second pipeline; `present` is FALSE for an
\* undefined sample.
AnalysisSample(perclos, tp, avg, max, yawnDuty, yawnCount, droopTime, droopDuty) ==
  [present |-> TRUE, perclos_30s |-> perclos, pitch_thresh_Tp |-> tp,
   pitchdown_avg_30s |-> avg, pitchdown_max_30s |-> max,
   yawn_duty_30s |-> yawnDuty, yawn_count_30s |-> yawnCount,
   droop_time_30s |-> droopTime, droop_duty_30s |-> droopDuty,
   confidence |-> "OK", fps |-> 30]

\* The sample s as a frame of the given confidence label and frame rate.
WithQuality(s, confidence, fps) == [s EXCEPT !.confidence = confidence, !.fps = fps]

ConfidenceInputs == {"OK", "LOW"}

FpsInputs == {23, 24}

NoSample ==
  [present |-> FALSE, perclos_30s |-> 0, pitch_thresh_Tp |-> 0,
   pitchdown_avg_30s |-> 0, pitchdown_max_30s |-> 0,
   yawn_duty_30s |-> 0, yawn_count_30s |-> 0,
   droop_time_30s |-> 0, droop_duty_30s |-> 0,
   confidence |-> "OK", fps |-> 0]

SampleInputs ==
  {AnalysisSample(p, tp, avg, max, yd, yc, dt, dd) :
     p \in {3999, 4000, 4500, 5999, 6000, 6500, 6548}, tp \in {15, 16}, avg \in {14, 15, 20, 21},
     max \in {18, 19, 23, 24}, yd \in {34, 35, 54, 55}, yc \in {1, 2},
     dt \in {11, 12, 17, 18}, dd \in {39, 40, 59, 60}}

\* Number.toFixed(1) of the value num / den, as a count of tenths, rounded to
\* the nearest tenth.
ToFixedWhole(num, den) == 10 * ((2 * num + den) \div (2 * den))

ToFixed1(num, den) == (20 * num + den) \div (2 * den)

\* `quoted` holds the numbers the reason message quotes, in message order.
StateAssessment(state, reason, quoted) ==
  [state |-> state, reason |-> reason, quoted |-> quoted]

NotAssessed == StateAssessment("none", "none", <<>>)

\* The reason is the message template of the branch that returned.
assessDriverStateElevatedFirst(smp) ==
  IF ~smp.present THEN StateAssessment("OK", "Awaiting data", <<>>)
  ELSE
    LET pitchThreshold == smp.pitch_thresh_Tp
        highPerclos == smp.perclos_30s >= 6000
        medPerclos == smp.perclos_30s >= 4000
        severeHeadDrop == \/ smp.pitchdown_avg_30s >= pitchThreshold + 5
                          \/ smp.pitchdown_max_30s >= pitchThreshold + 8
        headTrending == \/ smp.pitchdown_avg_30s >= pitchThreshold
                        \/ smp.pitchdown_max_30s >= pitchThreshold + 4
        yawOverload == smp.yawn_duty_30s >= 55
        yawElevated == smp.yawn_count_30s >= 2 \/ smp.yawn_duty_30s >= 35
        droopHeavy == smp.droop_time_30s >= 18 \/ smp.droop_duty_30s >= 60
        droopElevated == smp.droop_time_30s >= 12 \/ smp.droop_duty_30s >= 40
    IN IF highPerclos THEN StateAssessment("ASLEEP", "High fatigue detected", <<ToFixed1(smp.perclos_30s, 100)>>)
       ELSE IF medPerclos THEN StateAssessment("DROWSY_SOON", "Elevated PERCLOS", <<ToFixed1(smp.perclos_30s, 100)>>)
       ELSE IF severeHeadDrop THEN StateAssessment("ASLEEP", "Head drop beyond threshold",
              <<ToFixed1(smp.pitchdown_avg_30s, 1), ToFixed1(pitchThreshold, 1)>>)
       ELSE IF yawOverload THEN StateAssessment("ASLEEP", "Continuous yawning", <<ToFixed1(smp.yawn_duty_30s, 1)>>)
       ELSE IF droopHeavy THEN StateAssessment("ASLEEP", "Extended head droop", <<ToFixed1(smp.droop_time_30s, 1)>>)
       ELSE IF yawElevated THEN StateAssessment("DROWSY_SOON", "Frequent yawning", <<smp.yawn_count_30s>>)
       ELSE IF headTrending \/ droopElevated
            THEN StateAssessment("DROWSY_SOON", "Head pose nearing threshold",
                 <<ToFixed1(smp.pitchdown_avg_30s, 1)>>)
       ELSE StateAssessment("OK", "Vitals within safe thresholds", <<>>)

assessDriverState(smp) ==
  IF ~smp.present THEN StateAssessment("OK", "Awaiting data", <<>>)
  ELSE
    LET pitchThreshold == smp.pitch_thresh_Tp
        highPerclos == smp.perclos_30s >= 6000
        medPerclos == smp.perclos_30s >= 4000
        severeHeadDrop == \/ smp.pitchdown_avg_30s >= pitchThreshold + 5
                          \/ smp.pitchdown_max_30s >= pitchThreshold + 8
        headTrending == \/ smp.pitchdown_avg_30s >= pitchThreshold
                        \/ smp.pitchdown_max_30s >= pitchThreshold + 4
        yawOverload == smp.yawn_duty_30s >= 55
        yawElevated == smp.yawn_count_30s >= 2 \/ smp.yawn_duty_30s >= 35
        droopHeavy == smp.droop_time_30s >= 18 \/ smp.droop_duty_30s >= 60
        droopElevated == smp.droop_time_30s >= 12 \/ smp.droop_duty_30s >= 40
    IN IF highPerclos THEN StateAssessment("ASLEEP", "High fatigue detected", <<ToFixed1(smp.perclos_30s, 100)>>)
       ELSE IF severeHeadDrop THEN StateAssessment("ASLEEP", "Head drop beyond threshold",
              <<ToFixed1(smp.pitchdown_avg_30s, 1), ToFixed1(pitchThreshold, 1)>>)
       ELSE IF yawOverload THEN StateAssessment("ASLEEP", "Continuous yawning", <<ToFixed1(smp.yawn_duty_30s, 1)>>)
       ELSE IF droopHeavy THEN StateAssessment("ASLEEP", "Extended head droop", <<ToFixed1(smp.droop_time_30s, 1)>>)
       ELSE IF medPerclos THEN StateAssessment("DROWSY_SOON", "Elevated PERCLOS", <<ToFixed1(smp.perclos_30s, 100)>>)
       ELSE IF yawElevated THEN StateAssessment("DROWSY_SOON", "Frequent yawning", <<smp.yawn_count_30s>>)
       ELSE IF headTrending \/ droopElevated
            THEN StateAssessment("DROWSY_SOON", "Head pose nearing threshold",
                 <<ToFixed1(smp.pitchdown_avg_30s, 1)>>)
       ELSE StateAssessment("OK", "Vitals within safe thresholds", <<>>)

hasQualityWarningFpsOnly(smp) ==
  IF ~smp.present THEN FALSE ELSE smp.fps < 24

hasQualityWarning(smp) ==
  IF ~smp.present THEN FALSE ELSE smp.confidence # "OK" \/ smp.fps < 24

\* No page has called a classifier.
StatusIdle ==
  /\ latest = NoTelemetry
  /\ history = <<>>
  /\ thresholds = DefaultThresholds
  /\ statusText = "none"

AssessIdle ==
  /\ sample = NoSample
  /\ assessed = NotAssessed
  /\ dimPoint = FALSE

ViewIdle ==
  /\ windows = <<>>
  /\ timelinePoints = <<>>
  /\ truckAlerts = <<>>

ClassifierIdle ==
  /\ StatusIdle
  /\ AssessIdle
  /\ callLog = <<>>
  /\ ViewIdle

Init == StoreCreated /\ ClassifierIdle

\* -------------------------------------------------------- startGlobalTimer
\* The synchronous body of startGlobalTimer: the old timer is cleared, the
\* schedule is built, and a new timer is installed.  clearData() is started and
\* not awaited; however its request ends, it only logs.
StartGlobalTimer(startTime) ==
  /\ appStartTime' = startTime
  /\ stopThreshold' = getStopThreshold(videoDuration)
  /\ scheduledCalls' = BuildSchedule(SAMPLE_INTERVAL_SECONDS, getStopThreshold(videoDuration))
  /\ completedCalls' = {}
  /\ InstallTimer

\* App's mount effect: fetchVideoInfo() is started, then startGlobalTimer().
AppMount ==
  /\ app = "created"
  /\ app' = "mounted"
  /\ videoInfoPending' = TRUE
  /\ StartGlobalTimer(now)
  /\ \E c \in ResetOutcomes : ev' = [Event("start", 0, 0, <<>>) EXCEPT !.clear = c]
  /\ UNCHANGED <<now, globalElapsedTime, lastApiCallTime, secondsSinceLastApiCall,
                 analysisResults, currentSessionId, videoDuration, analysisCache,
                 inflight, reqLog, resetsPending, resets, failures, classifierVars>>

\* ---------------------------------------------------- performVideoAnalysis
CacheKey(sessionId, t) == <<sessionId, t>>

\* The early returns of performVideoAnalysis(t), read from the store as it is
\* when the call is made.
SkipsDispatchNoLedger(t) ==
  \/ t <= 0
  \/ (videoDuration.kind = "num" /\ videoDuration.val # 0 /\ t > videoDuration.val)

SkipsDispatch(t) ==
  \/ t <= 0
  \/ (videoDuration.kind = "num" /\ videoDuration.val # 0 /\ t > videoDuration.val)
  \/ CacheKey(currentSessionId, t) \in DOMAIN analysisCache
  \/ t \in completedCalls

\* scheduledCalls.map(call => call.timestamp === t
\*   ? { ...call, status: 'processing', attempts: call.attempts + 1, lastAttempt: Date.now() }
\*   : call)
MarkProcessing(calls, t, at) ==
  [i \in DOMAIN calls |->
     IF calls[i].timestamp = t
     THEN [calls[i] EXCEPT !.status = "processing", !.attempts = @ + 1, !.lastAttempt = at]
     ELSE calls[i]]

\* The synchronous part of performVideoAnalysis(t), up to the await of the
\* request: d holds the schedule, the requests in flight and the request log
\* as they are when the call is made.  The call keeps `state`, the store it
\* read on entry, for its failure handler: snap is state.callTracker.scheduledCalls.
PerformVideoAnalysis(d, t, at) ==
  IF SkipsDispatch(t)
  THEN d
  ELSE [calls |-> MarkProcessing(d.calls, t, at),
        inflight |-> d.inflight \cup {[id |-> Len(d.log) + 1, ts |-> t,
                                       session |-> currentSessionId, at |-> at,
                                       snap |-> d.calls]},
        log |-> Append(d.log, [ts |-> t, session |-> currentSessionId, at |-> at])]

\* calls.forEach(call => get().performVideoAnalysis(call.timestamp))
RECURSIVE DispatchAll(_, _, _)
DispatchAll(d, calls, at) ==
  IF calls = <<>> THEN d
  ELSE DispatchAll(PerformVideoAnalysis(d, Head(calls).timestamp, at), Tail(calls), at)

\* ---------------------------------------------------- getAnalysisProgress
IsCompleted(call) == call.status = "completed"

IsOutstanding(call) == call.status \in {"pending", "processing", "failed"}

\* A progress report that leaves the failed calls out of pending.
getAnalysisProgressNoFailed(calls) ==
  [completed |-> Len(SelectSeq(calls, IsCompleted)),
   total |-> Len(calls),
   pending |-> SelectSeq(calls, LAMBDA call : call.status \in {"pending", "processing"})]

getAnalysisProgress(calls) ==
  [completed |-> Len(SelectSeq(calls, IsCompleted)),
   total |-> Len(calls),
   pending |-> SelectSeq(calls, IsOutstanding)]

\* ------------------------------------------------------- the tick handler
IsPendingDue(call, elapsed) == call.timestamp <= elapsed /\ call.status = "pending"

IsRetryDue(call, t) ==
  /\ call.status = "failed"
  /\ call.attempts < maxRetries
  /\ (call.lastAttempt = 0 \/ (t - call.lastAttempt) > retryDelay)

PendingCalls(calls, elapsed) == SelectSeq(calls, LAMBDA call : IsPendingDue(call, elapsed))

FailedCalls(calls, t) == SelectSeq(calls, LAMBDA call : IsRetryDue(call, t))

AllCallsCompleted(calls) == \A i \in DOMAIN calls : calls[i].status = "completed"

ShouldStopAtThreshold(elapsed, calls) == elapsed >= stopThreshold

\* A stop test whose grace period is two sampling intervals.
ShouldStopAfterTwoIntervals(elapsed, calls) ==
  /\ elapsed >= stopThreshold
  /\ (AllCallsCompleted(calls) \/ elapsed >= stopThreshold + 30)

ShouldStop(elapsed, calls) ==
  /\ elapsed >= stopThreshold
  /\ (AllCallsCompleted(calls) \/ elapsed >= stopThreshold + 15)

\* One firing of the interval timer, TickMs after the previous one.  The
\* handler reads `state` once, before it dispatches; both selections and the
\* stop test use that value.
Tick ==
  /\ intervals # {}
  /\ now' = now + TickMs
  /\ LET elapsed == (now' - appStartTime) \div 1000
         sinceLast == IF lastApiCallTime > 0
                      THEN (now' - lastApiCallTime) \div 1000
                      ELSE elapsed
         state == scheduledCalls
         pendingCalls == PendingCalls(state, elapsed)
         failedCalls == FailedCalls(state, now')
         d0 == [calls |-> scheduledCalls, inflight |-> inflight, log |-> reqLog]
         d1 == DispatchAll(d0, pendingCalls, now')
         d2 == DispatchAll(d1, failedCalls, now')
     IN /\ globalElapsedTime' = elapsed
        /\ secondsSinceLastApiCall' = sinceLast
        /\ scheduledCalls' = d2.calls
        /\ inflight' = d2.inflight
        /\ reqLog' = d2.log
        /\ IF ShouldStop(elapsed, state) THEN StopGlobalTimer ELSE UNCHANGED timerVars
        /\ ev' = Event("tick", 0, 0,
                       [i \in 1..Len(pendingCalls) |-> pendingCalls[i].timestamp]
                       \o [i \in 1..Len(failedCalls) |-> failedCalls[i].timestamp])
  /\ UNCHANGED <<app, stopThreshold, appStartTime, lastApiCallTime, analysisResults,
                 currentSessionId, videoDuration, analysisCache, completedCalls,
                 videoInfoPending, resetsPending, resets, failures, classifierVars>>

\* ------------------------------------------------- the completion handlers
\* The request r returned a successful response: the final set() of the try
\* block.  It maps over the schedule of the store as it is now.
MarkCompleted(calls, t) ==
  [i \in DOMAIN calls |->
     IF calls[i].timestamp = t THEN [calls[i] EXCEPT !.status = "completed"] ELSE calls[i]]

CachePutDropped(cache, key, value) == cache

CachePut(cache, key, value) ==
  [k \in DOMAIN cache \cup {key} |-> IF k = key THEN value ELSE cache[k]]

\* The derived fields of the enhanced result: which of them are defined.
\* A field is read only from a response that is ok.
DerivedFieldsIgnoringStatus(c) ==
  [driver_state |-> c.state \in {"ok", "status"},
   hr_bpm       |-> c.hr \in {"ok", "status"},
   hrv_rmssd_ms |-> c.hrv \in {"ok", "status"}]

\* The state call has a try of its own; the two vitals calls share one, so a
\* throw of the heart-rate call skips the variability call.
DerivedFields(c) ==
  [driver_state |-> c.state = "ok",
   hr_bpm       |-> c.hr = "ok",
   hrv_rmssd_ms |-> c.hrv = "ok"]

EnhancedResult(r, c) ==
  [ts |-> r.ts, session |-> r.session, req |-> r.id,
   driver_state |-> DerivedFields(c).driver_state,
   hr_bpm       |-> DerivedFields(c).hr_bpm,
   hrv_rmssd_ms |-> DerivedFields(c).hrv_rmssd_ms]

CachedResult(r, c, at) ==
  [ts |-> r.ts, session |-> r.session, req |-> r.id,
   driver_state |-> DerivedFields(c).driver_state,
   hr_bpm       |-> DerivedFields(c).hr_bpm,
   hrv_rmssd_ms |-> DerivedFields(c).hrv_rmssd_ms,
   cached_at |-> at, from_cache |-> FALSE]

\* The window request r returned a successful response and its collaborator
\* calls ended as c says.
SucceedWith(r, c) ==
  /\ r \in inflight
  /\ Responsive(r.at)
  /\ IF c = AllOk
     THEN failures' = failures
     ELSE failures < MaxFailures /\ failures' = failures + 1
  /\ inflight' = inflight \ {r}
  /\ analysisResults' = Append(analysisResults, EnhancedResult(r, c))
  /\ lastApiCallTime' = now
  /\ secondsSinceLastApiCall' = 0
  /\ analysisCache' = CachePut(analysisCache, CacheKey(r.session, r.ts),
                               CachedResult(r, c, now))
  /\ completedCalls' = completedCalls \cup {r.ts}
  /\ scheduledCalls' = MarkCompleted(scheduledCalls, r.ts)
  /\ ev' = [Event("succeed", r.ts, r.id, <<>>) EXCEPT !.collab = c]
  /\ UNCHANGED <<now, app, timerVars, stopThreshold, appStartTime, globalElapsedTime,
                 currentSessionId, videoDuration, reqLog, videoInfoPending,
                 resetsPending, resets, classifierVars>>

\* A success handler that drops the response when the timer is stopped.
SucceedDroppedWhenStopped(r) ==
  IF timerActive
  THEN SucceedWith(r, AllOk)
  ELSE /\ r \in inflight
       /\ Responsive(r.at)
       /\ inflight' = inflight \ {r}
       /\ ev' = Event("succeed", r.ts, r.id, <<>>)
       /\ UNCHANGED <<now, app, timerVars, stopThreshold, appStartTime,
                      globalElapsedTime, lastApiCallTime, secondsSinceLastApiCall,
                      analysisResults, currentSessionId, videoDuration, analysisCache,
                      scheduledCalls, completedCalls, reqLog, videoInfoPending,
                      resetsPending, resets, failures, classifierVars>>

\* Every collaborator call answered ok.
Succeed(r) == SucceedWith(r, AllOk)

\* The request r threw, or returned a non-success status: the catch block.
\* failedCalls is computed from `state`, the store the call read on entry,
\* and then written to the store.
MarkFailedCounting(snap, live, t) ==
  [i \in DOMAIN live |->
     IF live[i].timestamp = t
     THEN [live[i] EXCEPT !.status = "failed", !.attempts = @ + 1]
     ELSE live[i]]

MarkFailed(snap, live, t) ==
  [i \in DOMAIN snap |->
     IF snap[i].timestamp = t THEN [snap[i] EXCEPT !.status = "failed"] ELSE snap[i]]

Fail(r) ==
  /\ r \in inflight
  /\ Responsive(r.at)
  /\ failures < MaxFailures
  /\ failures' = failures + 1
  /\ inflight' = inflight \ {r}
  /\ scheduledCalls' = MarkFailed(r.snap, scheduledCalls, r.ts)
  /\ ev' = Event("fail", r.ts, r.id, <<>>)
  /\ UNCHANGED <<now, app, timerVars, stopThreshold, appStartTime, globalElapsedTime,
                 lastApiCallTime, secondsSinceLastApiCall, analysisResults,
                 currentSessionId, videoDuration, analysisCache, completedCalls,
                 reqLog, videoInfoPending, resetsPending, resets, classifierVars>>

\* The request r returned a response that is not ok, and the response was
\* taken for a result: the success handler runs.
FailStatusSwallowed(r) ==
  /\ r \in inflight
  /\ Responsive(r.at)
  /\ failures < MaxFailures
  /\ failures' = failures + 1
  /\ inflight' = inflight \ {r}
  /\ analysisResults' = Append(analysisResults, EnhancedResult(r, AllOk))
  /\ lastApiCallTime' = now
  /\ secondsSinceLastApiCall' = 0
  /\ analysisCache' = CachePut(analysisCache, CacheKey(r.session, r.ts),
                               CachedResult(r, AllOk, now))
  /\ completedCalls' = completedCalls \cup {r.ts}
  /\ scheduledCalls' = MarkCompleted(scheduledCalls, r.ts)
  /\ ev' = Event("failStatus", r.ts, r.id, <<>>)
  /\ UNCHANGED <<now, app, timerVars, stopThreshold, appStartTime, globalElapsedTime,
                 currentSessionId, videoDuration, reqLog, videoInfoPending,
                 resetsPending, resets, classifierVars>>

\* The request r returned a response that is not ok: the body is read as text
\* and an Error is thrown, which the same catch block handles.  (Fail is the
\* request that threw: a transport failure.)
FailStatus(r) ==
  /\ r \in inflight
  /\ Responsive(r.at)
  /\ failures < MaxFailures
  /\ failures' = failures + 1
  /\ inflight' = inflight \ {r}
  /\ scheduledCalls' = MarkFailed(r.snap, scheduledCalls, r.ts)
  /\ ev' = Event("failStatus", r.ts, r.id, <<>>)
  /\ UNCHANGED <<now, app, timerVars, stopThreshold, appStartTime, globalElapsedTime,
                 lastApiCallTime, secondsSinceLastApiCall, analysisResults,
                 currentSessionId, videoDuration, analysisCache, completedCalls,
                 reqLog, videoInfoPending, resetsPending, resets, classifierVars>>

\* ----------------------------------------------------------- fetchVideoInfo
\* fetchVideoInfo is called once, by the mount effect, when Date.now() = Epoch.
VideoInfoOk(d) ==
  /\ videoInfoPending
  /\ Responsive(Epoch)
  /\ videoInfoPending' = FALSE
  /\ videoDuration' = d
  /\ ev' = Event("videoInfo", 0, 0, <<>>)
  /\ UNCHANGED <<now, app, timerVars, stopThreshold, appStartTime, globalElapsedTime,
                 lastApiCallTime, secondsSinceLastApiCall, analysisResults,
                 currentSessionId, analysisCache, scheduledCalls, completedCalls,
                 inflight, reqLog, resetsPending, resets, failures, classifierVars>>

\* The endpoint answered with a non-success status, or the request threw.
VideoInfoFailed ==
  /\ videoInfoPending
  /\ Responsive(Epoch)
  /\ videoInfoPending' = FALSE
  /\ ev' = Event("videoInfoFailed", 0, 0, <<>>)
  /\ UNCHANGED <<now, app, timerVars, stopThreshold, appStartTime, globalElapsedTime,
                 lastApiCallTime, secondsSinceLastApiCall, analysisResults,
                 currentSessionId, videoDuration, analysisCache, scheduledCalls,
                 completedCalls, inflight, reqLog, resetsPending, resets, failures, classifierVars>>

\* ---------------------------------------------------------- stopGlobalTimer
\* App's unmount effect calls stopGlobalTimer().
AppUnmount ==
  /\ app = "mounted"
  /\ app' = "unmounted"
  /\ StopGlobalTimer
  /\ ev' = Event("stop", 0, 0, <<>>)
  /\ UNCHANGED <<now, stopThreshold, appStartTime, globalElapsedTime, lastApiCallTime,
                 secondsSinceLastApiCall, analysisResults, currentSessionId,
                 videoDuration, analysisCache, scheduledCalls, completedCalls,
                 inflight, reqLog, videoInfoPending, resetsPending, resets, failures, classifierVars>>

\* --------------------------------------------------------- resetGlobalTimer
\* The logo click: stopGlobalTimer(), then the await of /api/session/reset.
\* A reset that does not call stopGlobalTimer().
ResetBeginNoStop ==
  /\ app = "mounted"
  /\ resets < MaxResets
  /\ resets' = resets + 1
  /\ resetsPending' = resetsPending + 1
  /\ ev' = Event("resetBegin", 0, 0, <<>>)
  /\ UNCHANGED <<now, app, timerVars, stopThreshold, appStartTime, globalElapsedTime,
                 lastApiCallTime, secondsSinceLastApiCall, analysisResults,
                 currentSessionId, videoDuration, analysisCache, scheduledCalls,
                 completedCalls, inflight, reqLog, videoInfoPending, failures, classifierVars>>

ResetBegin ==
  /\ app = "mounted"
  /\ resets < MaxResets
  /\ resets' = resets + 1
  /\ resetsPending' = resetsPending + 1
  /\ StopGlobalTimer
  /\ ev' = Event("resetBegin", 0, 0, <<>>)
  /\ UNCHANGED <<now, app, stopThreshold, appStartTime, globalElapsedTime,
                 lastApiCallTime, secondsSinceLastApiCall, analysisResults,
                 currentSessionId, videoDuration, analysisCache, scheduledCalls,
                 completedCalls, inflight, reqLog, videoInfoPending, failures, classifierVars>>

\* The reset request settled (success, non-success status or exception are
\* handled alike): the store is cleared and startGlobalTimer() is called.
\* The response is handled in the millisecond of the previous handler or in
\* a later one, and after the millisecond in which the store was created.
ResetFinish(o) ==
  /\ resetsPending > 0
  /\ resetsPending' = resetsPending - 1
  /\ \E d \in {0, 1} : now' = now + d
  /\ now' > Epoch
  /\ globalElapsedTime' = 0
  /\ lastApiCallTime' = 0
  /\ secondsSinceLastApiCall' = 0
  /\ analysisResults' = <<>>
  /\ currentSessionId' = now'
  /\ analysisCache' = <<>>
  /\ StartGlobalTimer(now')
  /\ \E c \in ResetOutcomes :
       ev' = [Event("start", 0, 0, <<>>) EXCEPT !.reset = o, !.clear = c]
  /\ UNCHANGED <<app, videoDuration, inflight, reqLog, videoInfoPending, resets, failures, classifierVars>>

\* One session: from the mount of the application to the stop of its timer.
Next ==
  \/ AppMount
  \/ Tick
  \/ \E r \in inflight : Succeed(r)
  \/ \E r \in inflight : Fail(r)
  \/ \E r \in inflight : FailStatus(r)
  \/ \E d \in VideoDurations : VideoInfoOk(d)
  \/ VideoInfoFailed

Spec == Init /\ [][Next]_vars

\* One session in which the interval timer keeps firing for as long as it is
\* set: window.setInterval calls the handler every TickMs until clearInterval.
SpecTicking == Init /\ [][Next]_vars /\ WF_vars(Tick)

\* One session in which the collaborator calls of a successful window
\* request may fail.
NextDegraded ==
  \/ AppMount
  \/ Tick
  \/ \E r \in inflight : \E c \in Collaborations : SucceedWith(r, c)
  \/ \E r \in inflight : Fail(r)
  \/ \E r \in inflight : FailStatus(r)
  \/ \E d \in VideoDurations : VideoInfoOk(d)
  \/ VideoInfoFailed

SpecDegraded == Init /\ [][NextDegraded]_vars

\* The sessions of an application: resets and the unmount included.  The
\* timer fires until Horizon seconds have passed since the store was created.
TickWithinHorizon ==
  /\ now + TickMs <= Epoch + Horizon * TickMs
  /\ Tick

NextLifecycle ==
  \/ AppMount
  \/ TickWithinHorizon
  \/ \E r \in inflight : Succeed(r)
  \/ \E r \in inflight : Fail(r)
  \/ \E r \in inflight : FailStatus(r)
  \/ \E d \in VideoDurations : VideoInfoOk(d)
  \/ VideoInfoFailed
  \/ AppUnmount
  \/ ResetBegin
  \/ \E o \in ResetOutcomes : ResetFinish(o)

SpecLifecycle == Init /\ [][NextLifecycle]_vars

\* Building the schedule, for every video duration known at the start.
InitSched ==
  /\ now = Epoch
  /\ app = "created"
  /\ globalTimerInterval = NoTimer
  /\ intervals = {}
  /\ timersCreated = 0
  /\ stopThreshold = 0
  /\ appStartTime = Epoch
  /\ globalElapsedTime = 0
  /\ lastApiCallTime = 0
  /\ secondsSinceLastApiCall = 0
  /\ analysisResults = <<>>
  /\ currentSessionId = Epoch
  /\ videoDuration \in DurationInputs
  /\ analysisCache = <<>>
  /\ scheduledCalls = <<>>
  /\ completedCalls = {}
  /\ inflight = {}
  /\ reqLog = <<>>
  /\ videoInfoPending = FALSE
  /\ resetsPending = 0
  /\ resets = 0
  /\ failures = 0
  /\ ev = Event("create", 0, 0, <<>>)
  /\ ClassifierIdle

NextSched == AppMount

SpecSched == InitSched /\ [][NextSched]_vars

\* A page computes the status of a driver from the latest sample, the
\* history and the thresholds.
ComputeStatus ==
  /\ statusText = "none"
  /\ statusText' = computeStatus(latest, history, thresholds)
  /\ UNCHANGED <<storeVars, latest, history, thresholds, assessVars, callLog, viewVars>>

InitStatus ==
  /\ StoreCreated
  /\ latest \in TelemetryInputs \cup {NoTelemetry}
  /\ history \in HistoryInputs
  /\ thresholds \in ThresholdInputs
  /\ statusText = "none"
  /\ AssessIdle
  /\ callLog = <<>>
  /\ ViewIdle

NextStatus == ComputeStatus

SpecStatus == InitStatus /\ [][NextStatus]_vars

\* The timeline assesses an analysis result and flags its quality.
AssessDriverState ==
  /\ assessed = NotAssessed
  /\ assessed' = assessDriverState(sample)
  /\ dimPoint' = hasQualityWarning(sample)
  /\ UNCHANGED <<storeVars, statusVars, sample, callLog, viewVars>>

InitAssess ==
  /\ StoreCreated
  /\ StatusIdle
  /\ sample \in {WithQuality(s, c, f) :
                    s \in SampleInputs, c \in ConfidenceInputs, f \in FpsInputs}
                  \cup {NoSample}
  /\ assessed = NotAssessed
  /\ dimPoint = FALSE
  /\ callLog = <<>>
  /\ ViewIdle

NextAssess == AssessDriverState

SpecAssess == InitAssess /\ [][NextAssess]_vars

\* ------------------------------------------------ timelinePoints, truckAlerts
\* An analysis result of the list the page renders: the end of its window (in
\* seconds of video, the timestamp the window was requested for) and its
\* signals.  The list is in the order the store appended the results: any
\* order of completion, with the windows that failed or are late left out.
Window(ts_end, signals) == [ts_end |-> ts_end, signals |-> signals]

WindowInputs ==
  {Window(t, smp) :
     t \in {30, 60, 90},
     smp \in {AnalysisSample(6500, 15, 14, 18, 34, 1, 11, 39),
              AnalysisSample(4500, 15, 14, 18, 34, 1, 11, 39),
              WithQuality(AnalysisSample(3999, 15, 14, 18, 34, 1, 11, 39), "LOW", 23)}}

\* Math.floor(total / 60) and Math.floor(total % 60), each padded to two
\* digits; the label is kept as the pair of numbers.
formatSeconds(totalSeconds) ==
  [minutes |-> totalSeconds \div 60, seconds |-> totalSeconds % 60]

\* The label of the bucket counted from the position among the alerts.
formatIntervalFromZero(bucketIndex) ==
  [start |-> formatSeconds(bucketIndex * 30), end |-> formatSeconds((bucketIndex + 1) * 30)]

formatInterval(bucketIndex) ==
  [start |-> formatSeconds((bucketIndex - 1) * 30), end |-> formatSeconds(bucketIndex * 30)]

\* analysisResults.map((result, index) => ...): index + 1 is the bucket.
TimelinePointsOf(results) ==
  [i \in DOMAIN results |->
     [ts_end |-> results[i].ts_end,
      bucketIndex |-> i,
      intervalLabel |-> formatInterval(i),
      state |-> assessDriverState(results[i].signals).state,
      stateReason |-> assessDriverState(results[i].signals).reason,
      dimPoint |-> hasQualityWarning(results[i].signals)]]

IsAlerting(point) == point.state # "OK"

AlertOf(point, index) ==
  [id |-> index,
   status |-> point.state,
   reason |-> point.stateReason,
   startedAt |-> point.ts_end,
   secondsDrowsy |-> 30,
   timeInterval |-> point.intervalLabel]

\* Alerts where a run of windows in the same state raises one alert only.
TruckAlertsDeduplicated(points) ==
  LET kept == {i \in DOMAIN points :
                 /\ IsAlerting(points[i])
                 /\ (i = 1 \/ points[i - 1].state # points[i].state)}
      nth(k) == CHOOSE i \in kept : Cardinality({j \in kept : j < i}) = k - 1
  IN [k \in 1..Cardinality(kept) |-> AlertOf(points[nth(k)], k - 1)]

\* timelinePoints.filter(...).map((point, index) => ...)
TruckAlertsOf(points) ==
  LET alerting == SelectSeq(points, IsAlerting)
  IN [k \in DOMAIN alerting |-> AlertOf(alerting[k], k - 1)]

\* The page renders the list of results it holds.
RenderTimeline ==
  /\ timelinePoints = <<>>
  /\ windows # <<>>
  /\ timelinePoints' = TimelinePointsOf(windows)
  /\ truckAlerts' = TruckAlertsOf(TimelinePointsOf(windows))
  /\ UNCHANGED <<storeVars, statusVars, assessVars, callLog, windows>>

InitTimeline ==
  /\ StoreCreated
  /\ StatusIdle
  /\ AssessIdle
  /\ callLog = <<>>
  /\ windows \in UNION {[1..n -> WindowInputs] : n \in 0..MaxWindows}
  /\ timelinePoints = <<>>
  /\ truckAlerts = <<>>

NextTimeline == RenderTimeline

SpecTimeline == InitTimeline /\ [][NextTimeline]_vars

\* A page calls the classifiers again and again, on whatever the store
\* holds at the time.
RecallTelemetry ==
  {NoTelemetry, Telemetry(40, 25, 3, 50, 20), Telemetry(30, 24, 3, 0, 20),
   Telemetry(10, 24, 2, 51, 21)}

RecallHistories ==
  {<<>>, <<[perclos |-> 10], [perclos |-> 20], [perclos |-> 30]>>}

RecallSamples ==
  {NoSample,
   AnalysisSample(6500, 15, 14, 18, 34, 1, 11, 39),
   AnalysisSample(4500, 15, 14, 18, 34, 1, 11, 39),
   AnalysisSample(3999, 15, 14, 18, 34, 1, 11, 39)}

Call(fn, args, out) == [fn |-> fn, args |-> args, out |-> out]

\* computeStatus with a memory: once ASLEEP, the status sticks.
CallComputeStatusSticky ==
  /\ Len(callLog) < MaxCalls
  /\ \E l \in RecallTelemetry, h \in RecallHistories, th \in ThresholdInputs :
       LET out == IF statusText = "ASLEEP" THEN "ASLEEP" ELSE computeStatus(l, h, th) IN
         /\ latest' = l
         /\ history' = h
         /\ thresholds' = th
         /\ statusText' = out
         /\ callLog' = Append(callLog, Call("computeStatus", <<l, h, th>>, out))
  /\ UNCHANGED <<storeVars, assessVars, viewVars>>

CallComputeStatus ==
  /\ Len(callLog) < MaxCalls
  /\ \E l \in RecallTelemetry, h \in RecallHistories, th \in ThresholdInputs :
       LET out == computeStatus(l, h, th) IN
         /\ latest' = l
         /\ history' = h
         /\ thresholds' = th
         /\ statusText' = out
         /\ callLog' = Append(callLog, Call("computeStatus", <<l, h, th>>, out))
  /\ UNCHANGED <<storeVars, assessVars, viewVars>>

CallAssessDriverState ==
  /\ Len(callLog) < MaxCalls
  /\ \E smp \in RecallSamples :
       LET out == assessDriverState(smp) IN
         /\ sample' = smp
         /\ assessed' = out
         /\ dimPoint' = hasQualityWarning(smp)
         /\ callLog' = Append(callLog, Call("assessDriverState", <<smp>>, out))
  /\ UNCHANGED <<storeVars, statusVars, viewVars>>

NextCalls ==
  \/ CallComputeStatus
  \/ CallAssessDriverState

SpecCalls == Init /\ [][NextCalls]_vars

TypeOK ==
  /\ now \in Nat
  /\ globalTimerInterval \in 0..timersCreated
  /\ intervals \subseteq 1..timersCreated
  /\ timersCreated \in 0..(MaxResets + 1)
  /\ \A i \in DOMAIN scheduledCalls :
       scheduledCalls[i].status \in {"pending", "processing", "completed", "failed"}

\* ===================================================================== claims
Timestamps == {scheduledCalls[i].timestamp : i \in DOMAIN scheduledCalls}

\* The step is a firing of the timer.
IsTickStep == now' = now + TickMs /\ ev'.op = "tick"

\* The step is the success (failure) handler of a request in flight.
IsCompletionStep(op) ==
  /\ ev'.op = op
  /\ \E r \in inflight : r.id = ev'.req /\ inflight' = inflight \ {r}

CompletedRequest == CHOOSE r \in inflight : r.id = ev'.req

RequestsFor(sessionId, t) ==
  {i \in DOMAIN reqLog : reqLog[i].session = sessionId /\ reqLog[i].ts = t}

ResultsFor(sessionId, t) ==
  {i \in DOMAIN analysisResults :
     analysisResults[i].session = sessionId /\ analysisResults[i].ts = t}

CallsAt(calls, t) == {i \in DOMAIN calls : calls[i].timestamp = t}

\* C1: a timer firing that invokes performVideoAnalysis(t) while the cache
\* holds (currentSessionId, t) or t is in the completed set sends no request
\* for t and leaves the call of t, the cache, the completed set and the
\* results as they were.
C1_IdempotentDispatch ==
  [][IsTickStep =>
       \A k \in DOMAIN ev'.invoked :
         LET t == ev'.invoked[k] IN
           (CacheKey(currentSessionId, t) \in DOMAIN analysisCache \/ t \in completedCalls)
             => /\ \A r \in inflight' \ inflight : r.ts # t
                /\ \A i \in DOMAIN reqLog' : i > Len(reqLog) => reqLog'[i].ts # t
                /\ \A i \in CallsAt(scheduledCalls, t) : scheduledCalls'[i] = scheduledCalls[i]
                /\ analysisCache' = analysisCache
                /\ completedCalls' = completedCalls
                /\ analysisResults' = analysisResults]_vars

\* A firing of the timer has just invoked performVideoAnalysis on a timestamp
\* that is cached and in the completed set.
C1_Witness ==
  /\ ev.op = "tick"
  /\ \E k \in DOMAIN ev.invoked :
       /\ ev.invoked[k] \in completedCalls
       /\ CacheKey(currentSessionId, ev.invoked[k]) \in DOMAIN analysisCache

\* C2: there are never two requests for the same (session, timestamp) in
\* flight at the same time.
C2_OneInFlight ==
  \A r1, r2 \in inflight :
    (r1.session = r2.session /\ r1.ts = r2.ts) => r1 = r2

\* C3: for a timestamp none of whose requests succeeded, at most maxRetries
\* requests are sent within the session.
C3_RetryBound ==
  \A t \in Timestamps :
    ResultsFor(currentSessionId, t) = {}
      => Cardinality(RequestsFor(currentSessionId, t)) <= maxRetries

\* C4: two requests for the same timestamp of a session are sent at least
\* retryDelay apart.
C4_RetryCooldown ==
  \A i, j \in DOMAIN reqLog :
    (i < j /\ reqLog[i].session = reqLog[j].session /\ reqLog[i].ts = reqLog[j].ts)
      => reqLog[j].at - reqLog[i].at >= retryDelay

\* C5: within a session the status of a scheduled call only moves
\* pending -> processing, processing -> completed, processing -> failed or
\* failed -> processing.
AllowedTransition(from, to) ==
  \/ from = to
  \/ from = "pending" /\ to = "processing"
  \/ from = "processing" /\ to \in {"completed", "failed"}
  \/ from = "failed" /\ to = "processing"

C5_MonotonicStatus ==
  [][currentSessionId' = currentSessionId =>
       \A i \in DOMAIN scheduledCalls \cap DOMAIN scheduledCalls' :
         AllowedTransition(scheduledCalls[i].status, scheduledCalls'[i].status)]_vars

\* C6: every scheduled call has 0 <= attempts <= maxRetries, and a call moves
\* from failed to processing only from a state where its attempts < maxRetries.
C6_AttemptsBounded ==
  /\ [](\A i \in DOMAIN scheduledCalls :
          scheduledCalls[i].attempts >= 0 /\ scheduledCalls[i].attempts <= maxRetries)
  /\ [][\A i \in DOMAIN scheduledCalls \cap DOMAIN scheduledCalls' :
          (scheduledCalls[i].status = "failed" /\ scheduledCalls'[i].status = "processing")
            => scheduledCalls[i].attempts < maxRetries]_vars

\* A firing of the timer has just sent a failed call's request again.
C6_Witness ==
  /\ ev.op = "tick"
  /\ \E i \in DOMAIN scheduledCalls :
       /\ scheduledCalls[i].status = "processing"
       /\ scheduledCalls[i].lastAttempt = now
       /\ Cardinality(RequestsFor(currentSessionId, scheduledCalls[i].timestamp)) >= 2
       /\ failures >= 1

\* C7: analysisResults holds at most one result of the current session for
\* any timestamp.
C7_SingleOutcome ==
  \A t \in Timestamps : Cardinality(ResultsFor(currentSessionId, t)) <= 1

\* C8: the schedule startGlobalTimer builds is interval, 2*interval, ...,
\* k*interval with k = floor(stopThreshold / interval), every call pending
\* with no attempts; with interval 30 and stopThreshold 90 it is 30, 60, 90.
IsFreshSchedule(calls, interval, threshold) ==
  /\ Len(calls) = threshold \div interval
  /\ \A i \in DOMAIN calls :
       /\ calls[i].timestamp = i * interval
       /\ calls[i].status = "pending"
       /\ calls[i].attempts = 0
       /\ calls[i].lastAttempt = 0

C8_ScheduleCorrect ==
  /\ ev.op = "start" =>
       /\ IsFreshSchedule(scheduledCalls, SAMPLE_INTERVAL_SECONDS, stopThreshold)
       /\ IsFreshSchedule(BuildSchedule(SAMPLE_INTERVAL_SECONDS_30, getStopThreshold30(videoDuration)),
                          SAMPLE_INTERVAL_SECONDS_30, getStopThreshold30(videoDuration))
  /\ LET calls == BuildSchedule(30, 90)
     IN [i \in DOMAIN calls |-> calls[i].timestamp] = <<30, 60, 90>>

\* startGlobalTimer has built the schedule of a video that is longer than the
\* minimum and not a multiple of the interval long.
C8_Witness ==
  /\ ev.op = "start"
  /\ videoDuration = Num(50)
  /\ Len(scheduledCalls) = 3

\* C9: stopThreshold is max(videoDuration, interval * minSamples) for a
\* numeric videoDuration and interval * minSamples for null and NaN; every
\* schedule has at least minSamples calls.
ExpectedThreshold(interval, minSamples, vd) ==
  IF vd.kind = "num" /\ vd.val > interval * minSamples THEN vd.val ELSE interval * minSamples

C9_StopThreshold ==
  ev.op = "start" =>
    /\ stopThreshold = ExpectedThreshold(SAMPLE_INTERVAL_SECONDS, MIN_REQUIRED_SAMPLES, videoDuration)
    /\ Len(scheduledCalls) >= MIN_REQUIRED_SAMPLES
    /\ getStopThreshold30(videoDuration)
         = ExpectedThreshold(SAMPLE_INTERVAL_SECONDS_30, MIN_REQUIRED_SAMPLES_30, videoDuration)
    /\ Len(BuildSchedule(SAMPLE_INTERVAL_SECONDS_30, getStopThreshold30(videoDuration)))
         >= MIN_REQUIRED_SAMPLES_30

\* startGlobalTimer has run for a video shorter than the minimum.
C9_Witness ==
  /\ ev.op = "start"
  /\ videoDuration.kind = "num"
  /\ videoDuration.val < MIN_ANALYSIS_DURATION
  /\ stopThreshold = MIN_ANALYSIS_DURATION

\* C10: the success handler of the request for t, in one step, appends the
\* result, writes the cache entry of (sessionId, t), adds t to the completed
\* set, marks the call completed, sets lastApiCallTime and zeroes
\* secondsSinceLastApiCall.
C10_SuccessOutcome ==
  [][IsCompletionStep("succeed") =>
       LET r == CompletedRequest IN
         /\ Len(analysisResults') = Len(analysisResults) + 1
         /\ SubSeq(analysisResults', 1, Len(analysisResults)) = analysisResults
         /\ analysisResults'[Len(analysisResults')].ts = r.ts
         /\ analysisResults'[Len(analysisResults')].req = r.id
         /\ CacheKey(r.session, r.ts) \in DOMAIN analysisCache'
         /\ analysisCache'[CacheKey(r.session, r.ts)].req = r.id
         /\ r.ts \in completedCalls'
         /\ CallsAt(scheduledCalls', r.ts) # {}
         /\ \A i \in CallsAt(scheduledCalls', r.ts) : scheduledCalls'[i].status = "completed"
         /\ lastApiCallTime' = now' /\ lastApiCallTime' > 0
         /\ secondsSinceLastApiCall' = 0]_vars

\* A request has just succeeded.
C10_Witness ==
  /\ ev.op = "succeed"
  /\ analysisResults # <<>>
  /\ analysisResults[Len(analysisResults)].req = ev.req
  /\ ev.ts \in completedCalls

\* C11: a request that throws and a request that returns a non-success status
\* are handled alike: the call of t becomes failed, and the cache, the
\* completed set, analysisResults and lastApiCallTime stay as they were.
C11_FailureOutcome ==
  [][(IsCompletionStep("fail") \/ IsCompletionStep("failStatus")) =>
       LET r == CompletedRequest IN
         /\ CallsAt(scheduledCalls', r.ts) # {}
         /\ \A i \in CallsAt(scheduledCalls', r.ts) : scheduledCalls'[i].status = "failed"
         /\ analysisCache' = analysisCache
         /\ completedCalls' = completedCalls
         /\ analysisResults' = analysisResults
         /\ lastApiCallTime' = lastApiCallTime]_vars

\* A request has just returned a non-success status, after an earlier window
\* had succeeded.
C11_Witness ==
  /\ ev.op = "failStatus"
  /\ \E i \in DOMAIN scheduledCalls :
       scheduledCalls[i].timestamp = ev.ts /\ scheduledCalls[i].status = "failed"
  /\ analysisResults # <<>>
  /\ lastApiCallTime > 0

\* C12: a firing of the timer stops the clock if and only if elapsedSeconds >=
\* stopThreshold and (every scheduled call is completed or elapsedSeconds >=
\* stopThreshold + interval); it never stops it below stopThreshold.
C12_StopRule ==
  [][IsTickStep =>
       /\ (~timerActive') <=>
            /\ globalElapsedTime' >= stopThreshold
            /\ \/ \A i \in DOMAIN scheduledCalls' : scheduledCalls'[i].status = "completed"
               \/ globalElapsedTime' >= stopThreshold + SAMPLE_INTERVAL_SECONDS
       /\ globalElapsedTime' < stopThreshold => timerActive']_vars

\* A firing of the timer has just stopped the clock before the grace interval
\* ran out, every call being completed.
C12_Witness ==
  /\ ev.op = "tick"
  /\ ~timerActive
  /\ globalElapsedTime >= stopThreshold
  /\ globalElapsedTime < stopThreshold + SAMPLE_INTERVAL_SECONDS
  /\ scheduledCalls # <<>>
  /\ \A i \in DOMAIN scheduledCalls : scheduledCalls[i].status = "completed"

\* C13: once stopGlobalTimer has run, the timer does not fire and no analysis
\* request is sent until startGlobalTimer runs again.
C13_StoppedIsQuiet ==
  [][(ev.op \in {"stop", "resetBegin"} \/ ~timerActive) =>
       /\ ~IsTickStep
       /\ reqLog' = reqLog
       /\ inflight' \subseteq inflight]_vars

\* The clock is stopped while a failed call is due for a retry.
C13_Witness ==
  /\ ~timerActive
  /\ app = "mounted"
  /\ \E i \in DOMAIN scheduledCalls : IsRetryDue(scheduledCalls[i], now + TickMs)

\* C14: a request in flight when the clock is stopped is not aborted: when it
\* succeeds its handler writes the cache entry, adds the timestamp to the
\* completed set and marks the call completed, and the clock stays stopped.
C14_CompletionAfterStop ==
  [][(IsCompletionStep("succeed") /\ ~timerActive) =>
       LET r == CompletedRequest IN
         /\ CacheKey(r.session, r.ts) \in DOMAIN analysisCache'
         /\ analysisCache'[CacheKey(r.session, r.ts)].req = r.id
         /\ r.ts \in completedCalls'
         /\ CallsAt(scheduledCalls', r.ts) # {}
         /\ \A i \in CallsAt(scheduledCalls', r.ts) : scheduledCalls'[i].status = "completed"
         /\ ~timerActive']_vars

\* A request has just succeeded while the clock was stopped.
C14_Witness ==
  /\ ev.op = "succeed"
  /\ ~timerActive
  /\ ev.ts \in completedCalls
  /\ CacheKey(currentSessionId, ev.ts) \in DOMAIN analysisCache

IsResetFinishStep == resetsPending' = resetsPending - 1

\* C15: when resetGlobalTimer completes, the session id differs from the one
\* before the reset, elapsedSeconds and lastApiCallTime are 0, analysisResults,
\* the cache and the completed set are empty, and the schedule is freshly
\* built with every call pending and attempts 0.
C15_ResetClears ==
  [][IsResetFinishStep =>
       /\ currentSessionId' # currentSessionId
       /\ globalElapsedTime' = 0
       /\ lastApiCallTime' = 0
       /\ analysisResults' = <<>>
       /\ DOMAIN analysisCache' = {}
       /\ completedCalls' = {}
       /\ scheduledCalls' # <<>>
       /\ IsFreshSchedule(scheduledCalls', SAMPLE_INTERVAL_SECONDS, stopThreshold')]_vars

\* C16: on a tick at which a call is pending and due, a request for its
\* timestamp is issued unless its result is cached or it is in the completed
\* set, whatever the video duration and the statuses of the other calls.
C16_PendingDueIsDispatched ==
  [][IsTickStep =>
       \A i \in DOMAIN scheduledCalls :
         LET t == scheduledCalls[i].timestamp IN
           (/\ scheduledCalls[i].status = "pending"
            /\ t <= globalElapsedTime'
            /\ t \notin completedCalls
            /\ CacheKey(currentSessionId, t) \notin DOMAIN analysisCache)
           => \E j \in DOMAIN reqLog' \ DOMAIN reqLog : reqLog'[j].ts = t]_vars

\* C17: when the window request succeeds and the classify-state call or a
\* vitals call fails, the call still ends completed, the window result is
\* still appended and cached, the derived fields of the failed calls are
\* absent and no request is sent.
C17_GracefulDegradation ==
  [][(IsCompletionStep("succeed") /\ ev'.collab # AllOk) =>
       LET r == CompletedRequest
           c == ev'.collab
           last == analysisResults'[Len(analysisResults')]
           key == CacheKey(r.session, r.ts)
       IN
         /\ CallsAt(scheduledCalls', r.ts) # {}
         /\ \A i \in CallsAt(scheduledCalls', r.ts) : scheduledCalls'[i].status = "completed"
         /\ r.ts \in completedCalls'
         /\ Len(analysisResults') = Len(analysisResults) + 1
         /\ last.req = r.id /\ last.ts = r.ts
         /\ key \in DOMAIN analysisCache'
         /\ analysisCache'[key].req = r.id
         /\ c.state # "ok" => ~last.driver_state /\ ~analysisCache'[key].driver_state
         /\ c.hr # "ok" => ~last.hr_bpm /\ ~analysisCache'[key].hr_bpm
         /\ c.hrv # "ok" => ~last.hrv_rmssd_ms /\ ~analysisCache'[key].hrv_rmssd_ms
         /\ reqLog' = reqLog
         /\ inflight' = inflight \ {r}]_vars

\* A window result was stored although its classify-state call and its
\* heart-rate call failed.
C17_Witness ==
  /\ ev.op = "succeed"
  /\ ev.collab.state = "status"
  /\ ev.collab.hr = "throw"
  /\ ev.ts \in completedCalls
  /\ analysisResults # <<>>
  /\ ~analysisResults[Len(analysisResults)].driver_state
  /\ ~analysisResults[Len(analysisResults)].hr_bpm

\* ------------------------------------------------------- the classifiers
Bit(b) == IF b THEN 1 ELSE 0

\* The last three samples of the history have strictly increasing perclos.
LastThreeIncreasing(h) ==
  /\ Len(h) >= 3
  /\ h[Len(h) - 2].perclos < h[Len(h) - 1].perclos
  /\ h[Len(h) - 1].perclos < h[Len(h)].perclos

\* The risk score with a heart rate, or an HRV, of 0 counted as low.
ScoreAsStated(l, th) ==
  2 * Bit(l.perclos >= th.perclosHigh) + Bit(l.headDownDegrees >= th.headDownDegHigh)
    + Bit(l.yawnCount30s >= th.yawnCountHigh)
    + Bit(l.heartRate <= th.hrLow) + Bit(l.hrvRmssd <= th.hrvLow)

\* The risk score with a reading of 0 taken for no reading.
ScoreOfReadings(l, th) ==
  2 * Bit(l.perclos >= th.perclosHigh) + Bit(l.headDownDegrees >= th.headDownDegHigh)
    + Bit(l.yawnCount30s >= th.yawnCountHigh)
    + Bit(l.heartRate > 0 /\ l.heartRate <= th.hrLow)
    + Bit(l.hrvRmssd > 0 /\ l.hrvRmssd <= th.hrvLow)

StatusOfScore(score, l, h, th) ==
  IF score >= 3 /\ l.perclos >= th.perclosHigh THEN "ASLEEP"
  ELSE IF score >= 2 /\ (l.perclos >= th.perclosHigh \/ LastThreeIncreasing(h))
       THEN "DROWSY_SOON"
  ELSE "OK"

\* C18 as stated: computeStatus returns the status of the score
\* 2[perclos >= perclosHigh] + [head pitch >= headDownDegHigh]
\* + [yawn count >= yawnCountHigh] + [heart rate <= hrLow] + [HRV <= hrvLow].
C18_ScoreClassifierAsStated ==
  (statusText # "none" /\ latest.present) =>
    statusText = StatusOfScore(ScoreAsStated(latest, thresholds), latest, history, thresholds)

\* C18 amended: computeStatus returns the status of that score with the last
\* two terms [0 < heart rate <= hrLow] and [0 < HRV <= hrvLow]: ASLEEP iff
\* score >= 3 and perclos >= perclosHigh, otherwise DROWSY_SOON iff score >= 2
\* and (perclos >= perclosHigh or the last three history samples strictly
\* increase), otherwise OK.
C18_ScoreClassifier ==
  (statusText # "none" /\ latest.present) =>
    statusText = StatusOfScore(ScoreOfReadings(latest, thresholds), latest, history, thresholds)

\* A sample over the perclos threshold with no heart-rate and no HRV reading
\* was classified DROWSY_SOON.
C18_Witness ==
  /\ statusText = "DROWSY_SOON"
  /\ latest.present
  /\ latest.perclos >= thresholds.perclosHigh
  /\ latest.heartRate = 0
  /\ latest.hrvRmssd = 0
  /\ latest.headDownDegrees < thresholds.headDownDegHigh
  /\ latest.yawnCount30s < thresholds.yawnCountHigh

\* The scenario of C19: the history is [0.1, 0.2, 0.3] and the latest perclos
\* 0.3 is below the high threshold.
PerclosOf(h) == [i \in DOMAIN h |-> h[i].perclos]

LatestBelowHigh == latest.present /\ latest.perclos = 30 /\ latest.perclos < thresholds.perclosHigh

OthersBreachedAsStated ==
  Bit(latest.headDownDegrees >= thresholds.headDownDegHigh)
    + Bit(latest.yawnCount30s >= thresholds.yawnCountHigh)
    + Bit(latest.heartRate <= thresholds.hrLow) + Bit(latest.hrvRmssd <= thresholds.hrvLow)

OthersBreached ==
  Bit(latest.headDownDegrees >= thresholds.headDownDegHigh)
    + Bit(latest.yawnCount30s >= thresholds.yawnCountHigh)
    + Bit(latest.heartRate > 0 /\ latest.heartRate <= thresholds.hrLow)
    + Bit(latest.hrvRmssd > 0 /\ latest.hrvRmssd <= thresholds.hrvLow)

StrictlyIncreasing(h) == \A i \in 1..(Len(h) - 1) : h[i].perclos < h[i + 1].perclos

\* C19 as stated: with history [0.1, 0.2, 0.3], latest perclos 0.3 below the
\* high threshold and one other weighted signal breached the status is
\* DROWSY_SOON; with a history that is not strictly increasing it is OK.
C19_WorseningTrendAsStated ==
  (statusText # "none" /\ LatestBelowHigh) =>
    /\ (PerclosOf(history) = <<10, 20, 30>> /\ OthersBreachedAsStated >= 1)
         => statusText = "DROWSY_SOON"
    /\ ~StrictlyIncreasing(history) => statusText = "OK"

\* C19 amended: with history [0.1, 0.2, 0.3], latest perclos 0.3 below the
\* high threshold and at least two other weighted signals breached (a reading
\* of 0 is no breach) the status is DROWSY_SOON; with a history whose last
\* three samples are not strictly increasing it is OK.
C19_WorseningTrend ==
  (statusText # "none" /\ LatestBelowHigh) =>
    /\ (PerclosOf(history) = <<10, 20, 30>> /\ OthersBreached >= 2)
         => statusText = "DROWSY_SOON"
    /\ ~LastThreeIncreasing(history) => statusText = "OK"

\* The worsening rule alone made the status DROWSY_SOON.
C19_Witness ==
  /\ statusText = "DROWSY_SOON"
  /\ LatestBelowHigh
  /\ PerclosOf(history) = <<10, 20, 30>>
  /\ OthersBreached = 2

\* The tiers of assessDriverState as conditions on the sample.
AsleepTier(smp) ==
  \/ smp.perclos_30s >= 6000
  \/ smp.pitchdown_avg_30s >= smp.pitch_thresh_Tp + 5
  \/ smp.pitchdown_max_30s >= smp.pitch_thresh_Tp + 8
  \/ smp.yawn_duty_30s >= 55
  \/ smp.droop_time_30s >= 18
  \/ smp.droop_duty_30s >= 60

DrowsyTier(smp) ==
  \/ smp.perclos_30s >= 4000
  \/ smp.yawn_count_30s >= 2
  \/ smp.yawn_duty_30s >= 35
  \/ smp.pitchdown_avg_30s >= smp.pitch_thresh_Tp
  \/ smp.pitchdown_max_30s >= smp.pitch_thresh_Tp + 4
  \/ smp.droop_time_30s >= 12
  \/ smp.droop_duty_30s >= 40

\* The reason of the first branch, in priority order, that the sample matches.
FirstMatchReason(smp) ==
  IF smp.perclos_30s >= 6000 THEN "High fatigue detected"
  ELSE IF \/ smp.pitchdown_avg_30s >= smp.pitch_thresh_Tp + 5
          \/ smp.pitchdown_max_30s >= smp.pitch_thresh_Tp + 8
       THEN "Head drop beyond threshold"
  ELSE IF smp.yawn_duty_30s >= 55 THEN "Continuous yawning"
  ELSE IF smp.droop_time_30s >= 18 \/ smp.droop_duty_30s >= 60 THEN "Extended head droop"
  ELSE IF smp.perclos_30s >= 4000 THEN "Elevated PERCLOS"
  ELSE IF smp.yawn_count_30s >= 2 \/ smp.yawn_duty_30s >= 35 THEN "Frequent yawning"
  ELSE IF \/ smp.pitchdown_avg_30s >= smp.pitch_thresh_Tp
          \/ smp.pitchdown_max_30s >= smp.pitch_thresh_Tp + 4
          \/ smp.droop_time_30s >= 12 \/ smp.droop_duty_30s >= 40
       THEN "Head pose nearing threshold"
  ELSE "Vitals within safe thresholds"

\* C20: assessDriverState returns ASLEEP iff the sample is in the asleep
\* tier, otherwise DROWSY_SOON iff it is in the drowsy tier, otherwise OK, and
\* the reason is the one of the first branch, in priority order, that matches.
C20_TieredClassifier ==
  (assessed # NotAssessed /\ sample.present) =>
    /\ (assessed.state = "ASLEEP") <=> AsleepTier(sample)
    /\ (assessed.state = "DROWSY_SOON") <=> (~AsleepTier(sample) /\ DrowsyTier(sample))
    /\ (assessed.state = "OK") <=> (~AsleepTier(sample) /\ ~DrowsyTier(sample))
    /\ assessed.reason = FirstMatchReason(sample)

\* A sample with elevated perclos was assessed ASLEEP for its head droop.
C20_Witness ==
  /\ assessed.state = "ASLEEP"
  /\ assessed.reason = "Extended head droop"
  /\ sample.perclos_30s >= 4000
  /\ sample.yawn_count_30s >= 2

\* The reason is that of a closure-ratio branch.
ClosureRatioDecides == assessed.reason \in {"High fatigue detected", "Elevated PERCLOS"}

\* q tenths of a percent is the closure ratio r (in ten-thousandths) as a
\* percentage with one decimal: r / 100 lies in [q/10 - 0.05, q/10 + 0.05).
IsPercentOneDecimal(q, r) == (r - 10 * q) \in -5..4

Nominal(smp) ==
  /\ smp.pitchdown_avg_30s < smp.pitch_thresh_Tp
  /\ smp.pitchdown_max_30s < smp.pitch_thresh_Tp + 4
  /\ smp.yawn_duty_30s < 35
  /\ smp.droop_time_30s < 12
  /\ smp.droop_duty_30s < 40

\* C21: a sample with closure ratio 0.65 is ASLEEP with a reason quoting
\* 65.0%; one with closure ratio 0.45, yawn count 1 and every other signal
\* nominal is DROWSY_SOON with a reason quoting 45.0%; whenever a
\* closure-ratio branch decides, the reason quotes the closure ratio as a
\* percentage with one decimal.
C21_ThresholdScenarios ==
  (assessed # NotAssessed /\ sample.present) =>
    /\ sample.perclos_30s = 6500 =>
         /\ assessed.state = "ASLEEP"
         /\ assessed.quoted = <<650>>
    /\ (sample.perclos_30s = 4500 /\ sample.yawn_count_30s = 1 /\ Nominal(sample)) =>
         /\ assessed.state = "DROWSY_SOON"
         /\ assessed.quoted = <<450>>
    /\ ClosureRatioDecides =>
         /\ Len(assessed.quoted) = 1
         /\ IsPercentOneDecimal(assessed.quoted[1], sample.perclos_30s)

\* The second scenario was assessed.
C21_Witness ==
  /\ assessed.state = "DROWSY_SOON"
  /\ assessed.reason = "Elevated PERCLOS"
  /\ sample.perclos_30s = 4500
  /\ sample.yawn_count_30s = 1
  /\ Nominal(sample)
  /\ assessed.quoted = <<450>>

\* C22: a window is dimmed iff its frame confidence is not OK or its fps is
\* below 24, and a sample that differs only in confidence and fps receives
\* the same state and the same reason.
C22_DimmedIsAdvisory ==
  (assessed # NotAssessed /\ sample.present) =>
    /\ dimPoint <=> (sample.confidence # "OK" \/ sample.fps < 24)
    /\ \A c \in ConfidenceInputs, f \in FpsInputs :
         assessDriverState(WithQuality(sample, c, f)) = assessed

\* A frame of low confidence at a sufficient frame rate was dimmed and
\* assessed ASLEEP.
C22_Witness ==
  /\ assessed.state = "ASLEEP"
  /\ dimPoint
  /\ sample.confidence = "LOW"
  /\ sample.fps = 24

Rendered == timelinePoints # <<>>

\* The windows whose classified state is not OK, and the place of window i
\* among them.
NonOkWindows == {i \in DOMAIN windows : assessDriverState(windows[i].signals).state # "OK"}

Rank(i) == Cardinality({j \in NonOkWindows : j <= i})

\* C24: the alert list holds exactly one alert for each window whose state is
\* not OK and none for the others, in the order of the windows, with status
\* and reason copied from the classifier; adjacent windows in the same state
\* each have their own alert.
C24_AlertsOneToOne ==
  Rendered =>
    /\ Len(truckAlerts) = Cardinality(NonOkWindows)
    /\ \A i \in NonOkWindows :
         /\ truckAlerts[Rank(i)].status = assessDriverState(windows[i].signals).state
         /\ truckAlerts[Rank(i)].reason = assessDriverState(windows[i].signals).reason
         /\ truckAlerts[Rank(i)].startedAt = windows[i].ts_end

\* Two adjacent ASLEEP windows after an OK window raised two alerts.
C24_Witness ==
  /\ Rendered
  /\ Len(windows) = 3
  /\ timelinePoints[1].state = "OK"
  /\ timelinePoints[2].state = "ASLEEP"
  /\ timelinePoints[3].state = "ASLEEP"
  /\ Len(truckAlerts) = 2

\* C25: the timeInterval of an alert is the label of the range
\* [(b-1)*interval, b*interval) seconds, b being the position of its window
\* in the result list; secondsDrowsy is the window length and startedAt the
\* window's ts_end.
C25_AlertFields ==
  Rendered =>
    \A b \in NonOkWindows :
      LET alert == truckAlerts[Rank(b)]
          from == (b - 1) * SAMPLE_INTERVAL_SECONDS_30
          to == b * SAMPLE_INTERVAL_SECONDS_30
      IN /\ alert.timeInterval.start.minutes * 60 + alert.timeInterval.start.seconds = from
         /\ alert.timeInterval.start.seconds < 60
         /\ alert.timeInterval.end.minutes * 60 + alert.timeInterval.end.seconds = to
         /\ alert.timeInterval.end.seconds < 60
         /\ alert.secondsDrowsy = SAMPLE_INTERVAL_SECONDS_30
         /\ alert.startedAt = windows[b].ts_end

\* The only alert is that of the third window: its label is 01:00-01:30.
C25_Witness ==
  /\ Rendered
  /\ Len(truckAlerts) = 1
  /\ NonOkWindows = {3}
  /\ truckAlerts[1].timeInterval = [start |-> [minutes |-> 1, seconds |-> 0],
                                    end |-> [minutes |-> 1, seconds |-> 30]]

\* C26: in every reachable state, whatever the order in which the requests in
\* flight complete, the result list, and with it the alert list the page
\* derives from it in list order, is sorted by ascending window timestamp.
C26_ResultsSortedByTimestamp ==
  \A i, j \in DOMAIN analysisResults :
    i < j => analysisResults[i].ts <= analysisResults[j].ts

\* The positions of the schedule whose call has one of the given statuses.
CallsWithStatus(statuses) ==
  {i \in DOMAIN scheduledCalls : scheduledCalls[i].status \in statuses}

\* C27: in every reachable state getAnalysisProgress returns total = the
\* number of scheduled calls, completed = the number of completed calls and
\* pending = exactly the pending, processing and failed calls, so that
\* completed + |pending| = total; a failed call that has used up its retries
\* is among the pending ones.
C27_ProgressIntrospection ==
  LET progress == getAnalysisProgress(scheduledCalls)
      open == CallsWithStatus({"pending", "processing", "failed"})
  IN /\ progress.total = Len(scheduledCalls)
     /\ progress.completed = Cardinality(CallsWithStatus({"completed"}))
     /\ Len(progress.pending) = Cardinality(open)
     /\ \A k \in DOMAIN progress.pending :
          progress.pending[k].status \in {"pending", "processing", "failed"}
     /\ \A i \in open :
          \E k \in DOMAIN progress.pending : progress.pending[k] = scheduledCalls[i]
     /\ progress.completed + Len(progress.pending) = progress.total
     /\ \A i \in DOMAIN scheduledCalls :
          (scheduledCalls[i].status = "failed" /\ scheduledCalls[i].attempts >= maxRetries)
            => \E k \in DOMAIN progress.pending : progress.pending[k] = scheduledCalls[i]

\* One call is completed, one has failed and is reported as pending.
C27_Witness ==
  /\ Len(scheduledCalls) = 2
  /\ getAnalysisProgress(scheduledCalls).completed = 1
  /\ Len(getAnalysisProgress(scheduledCalls).pending) = 1
  /\ getAnalysisProgress(scheduledCalls).pending[1].status = "failed"

\* What startGlobalTimer leaves behind: the schedule built for the stop
\* threshold, every call pending, and a running timer.
StartedFreshTimer ==
  /\ timerActive'
  /\ stopThreshold' = getStopThreshold(videoDuration)
  /\ IsFreshSchedule(scheduledCalls', SAMPLE_INTERVAL_SECONDS, stopThreshold')
  /\ completedCalls' = {}

\* What a completed reset leaves behind, apart from the new id.
InstalledClearedSession ==
  /\ appStartTime' = now'
  /\ globalElapsedTime' = 0
  /\ lastApiCallTime' = 0
  /\ secondsSinceLastApiCall' = 0
  /\ analysisResults' = <<>>
  /\ DOMAIN analysisCache' = {}

\* C28: whether the session-reset request succeeds, returns a non-success
\* status or throws, resetGlobalTimer installs a new session (an id that
\* differs from the previous one, cleared state) and starts a fresh schedule
\* and timer, and startGlobalTimer builds the schedule and starts ticking.
C28_ResetFailuresTolerated ==
  [][/\ (ev'.op = "start" /\ ev'.clear \in ResetOutcomes) => StartedFreshTimer
     /\ (IsResetFinishStep /\ ev'.reset \in ResetOutcomes) =>
          /\ currentSessionId' # currentSessionId
          /\ InstalledClearedSession
          /\ StartedFreshTimer]_vars

\* The part of C28 that does not depend on the new id being different.
C28_ToleratedApartFromId ==
  [][/\ (ev'.op = "start" /\ ev'.clear \in ResetOutcomes) => StartedFreshTimer
     /\ (IsResetFinishStep /\ ev'.reset \in ResetOutcomes) =>
          /\ currentSessionId' = now'
          /\ InstalledClearedSession
          /\ StartedFreshTimer]_vars

\* The dispatch time of the latest request sent for timestamp t in the
\* session; the log is in dispatch order.
LatestDispatch(sessionId, t) ==
  LET sent == RequestsFor(sessionId, t)
  IN reqLog[CHOOSE i \in sent : \A j \in sent : j <= i].at

\* C29: in every reachable state of a session, the attempts of each scheduled
\* call is the number of requests sent so far for its timestamp in the
\* session and, when attempts > 0, lastAttempt is the dispatch time of the
\* latest of them; also right after a request has failed.
C29_AttemptAccounting ==
  \A i \in DOMAIN scheduledCalls :
    LET call == scheduledCalls[i]
        sent == RequestsFor(currentSessionId, call.timestamp)
    IN /\ call.attempts = Cardinality(sent)
       /\ call.attempts > 0 => call.lastAttempt = LatestDispatch(currentSessionId, call.timestamp)

\* C30: in every reachable state, every timestamp in the completed set has a
\* cache entry under the key (currentSessionId, t), so that getCachedResult(t)
\* returns a result for it.
C30_CompletedIsCached ==
  \A t \in completedCalls : CacheKey(currentSessionId, t) \in DOMAIN analysisCache

\* The step is the completion, successful or not, of a request that was sent
\* under a session id that is not the current one any more.
IsStaleCompletionStep ==
  /\ (IsCompletionStep("succeed") \/ IsCompletionStep("fail") \/ IsCompletionStep("failStatus"))
  /\ CompletedRequest.session # currentSessionId

\* C31: the completion (success or failure) of a request sent under a session
\* id that is not current any more is discarded: it changes neither the
\* schedule of the new session, nor its completed set, nor analysisResults,
\* nor lastApiCallTime.
C31_StaleCompletionDiscarded ==
  [][IsStaleCompletionStep =>
       UNCHANGED <<scheduledCalls, completedCalls, analysisResults, lastApiCallTime>>]_vars

\* C32: the success or failure completion of the request for timestamp t
\* changes the schedule entry of t only: the status, attempts and lastAttempt
\* of every other scheduled call are the same after the handler as
\* immediately before it.
C32_CompletionFrame ==
  [][(IsCompletionStep("succeed") \/ IsCompletionStep("fail") \/ IsCompletionStep("failStatus")) =>
       /\ DOMAIN scheduledCalls' = DOMAIN scheduledCalls
       /\ \A i \in DOMAIN scheduledCalls :
            scheduledCalls[i].timestamp # CompletedRequest.ts
              => scheduledCalls'[i] = scheduledCalls[i]]_vars

\* C33: for a video whose metadata reports duration D, the schedule of the
\* session started at application start holds every multiple of the interval
\* up to max(D, interval * minSamples), whether the metadata response arrives
\* before or after startGlobalTimer builds the schedule.
C33_DurationFeedsSchedule ==
  (app = "mounted" /\ videoDuration.kind = "num") =>
    \A k \in 1..(Max(videoDuration.val, MIN_ANALYSIS_DURATION) \div SAMPLE_INTERVAL_SECONDS) :
      k * SAMPLE_INTERVAL_SECONDS \in Timestamps

\* C34: in every reachable state, every scheduled call whose timestamp is in
\* the completed set or has a cache entry of the current session has status
\* completed, and every call with status completed has its timestamp in the
\* completed set.
C34_LedgerAgreesWithSchedule ==
  \A i \in DOMAIN scheduledCalls :
    LET call == scheduledCalls[i] IN
    /\ (\/ call.timestamp \in completedCalls
        \/ CacheKey(currentSessionId, call.timestamp) \in DOMAIN analysisCache)
         => call.status = "completed"
    /\ call.status = "completed" => call.timestamp \in completedCalls

\* C35: after any sequence of startGlobalTimer, stopGlobalTimer and (possibly
\* overlapping) resetGlobalTimer calls at most one tick timer is active, and
\* it is the one globalTimerInterval names; so at most one tick handler runs
\* per second.
C35_SingleTimer ==
  /\ Cardinality(intervals) <= 1
  /\ intervals \subseteq {globalTimerInterval}
  /\ timerActive => intervals = {globalTimerInterval}

\* Two resets overlapped: both reset requests were pending together, both
\* have settled, each started a timer, and the third timer is the one running.
C35_Witness ==
  /\ resets = 2
  /\ resetsPending = 0
  /\ timersCreated = 3
  /\ intervals = {3}
  /\ ev.op = "start"
  /\ ev.reset = "throw"

\* C36: the tick handler never sends a request for a scheduled timestamp t
\* while elapsedSeconds < t: every request a tick sends for t is sent at a
\* tick where elapsedSeconds >= t.
C36_NoEarlyDispatch ==
  [][IsTickStep =>
       \A i \in DOMAIN reqLog' :
         i > Len(reqLog) => reqLog'[i].ts <= globalElapsedTime']_vars

\* C37: in a session whose ticks keep firing the clock eventually stops,
\* whatever the outcomes of the analysis requests and also when requests never
\* complete; it never runs beyond the first tick with elapsedSeconds >=
\* stopThreshold + interval.
C37_ClockTerminates ==
  /\ [](timerActive => globalElapsedTime < stopThreshold + SAMPLE_INTERVAL_SECONDS)
  /\ (timerActive ~> ~timerActive)

\* The tick at elapsedSeconds = stopThreshold + interval has just stopped the
\* clock while a request is still without an answer.
C37_Witness ==
  /\ ev.op = "tick"
  /\ ~timerActive
  /\ inflight # {}
  /\ globalElapsedTime = stopThreshold + SAMPLE_INTERVAL_SECONDS

\* q is the value v as the message prints it with one decimal (in tenths).
QuotesOneDecimal(q, v) == q = 10 * v

\* The first number the reason quotes is the value of a signal of the branch
\* that fired, and that signal meets its own condition of the branch.
QuotedSignalOffends(smp, a) ==
  LET q == a.quoted[1]
      tp == smp.pitch_thresh_Tp
  IN CASE a.reason = "High fatigue detected" ->
            IsPercentOneDecimal(q, smp.perclos_30s) /\ smp.perclos_30s >= 6000
       [] a.reason = "Head drop beyond threshold" ->
            \/ QuotesOneDecimal(q, smp.pitchdown_avg_30s) /\ smp.pitchdown_avg_30s >= tp + 5
            \/ QuotesOneDecimal(q, smp.pitchdown_max_30s) /\ smp.pitchdown_max_30s >= tp + 8
       [] a.reason = "Continuous yawning" ->
            QuotesOneDecimal(q, smp.yawn_duty_30s) /\ smp.yawn_duty_30s >= 55
       [] a.reason = "Extended head droop" ->
            \/ QuotesOneDecimal(q, smp.droop_time_30s) /\ smp.droop_time_30s >= 18
            \/ QuotesOneDecimal(q, smp.droop_duty_30s) /\ smp.droop_duty_30s >= 60
       [] a.reason = "Elevated PERCLOS" ->
            IsPercentOneDecimal(q, smp.perclos_30s) /\ smp.perclos_30s >= 4000
       [] a.reason = "Frequent yawning" ->
            \/ q = smp.yawn_count_30s /\ smp.yawn_count_30s >= 2
            \/ QuotesOneDecimal(q, smp.yawn_duty_30s) /\ smp.yawn_duty_30s >= 35
       [] a.reason = "Head pose nearing threshold" ->
            \/ QuotesOneDecimal(q, smp.pitchdown_avg_30s) /\ smp.pitchdown_avg_30s >= tp
            \/ QuotesOneDecimal(q, smp.pitchdown_max_30s) /\ smp.pitchdown_max_30s >= tp + 4
            \/ QuotesOneDecimal(q, smp.droop_time_30s) /\ smp.droop_time_30s >= 12
            \/ QuotesOneDecimal(q, smp.droop_duty_30s) /\ smp.droop_duty_30s >= 40
       [] OTHER -> FALSE

\* C38: for every sample that assessDriverState classifies non-OK, the value
\* quoted in the reason is the value of a signal that satisfies the condition
\* of the branch that fired.
C38_ReasonNamesOffendingSignal ==
  (assessed # NotAssessed /\ assessed.state # "OK") => QuotedSignalOffends(sample, assessed)

\* OK < DROWSY_SOON < ASLEEP.
Severity(state) ==
  CASE state = "OK" -> 0
    [] state = "DROWSY_SOON" -> 1
    [] state = "ASLEEP" -> 2

\* The values each signal of the tiered classifier is drawn from.
SignalLevels ==
  [perclos_30s |-> {3999, 4000, 4500, 5999, 6000, 6500, 6548},
   pitchdown_avg_30s |-> {14, 15, 20, 21},
   pitchdown_max_30s |-> {18, 19, 23, 24},
   yawn_count_30s |-> {1, 2},
   yawn_duty_30s |-> {34, 35, 54, 55},
   droop_time_30s |-> {11, 12, 17, 18},
   droop_duty_30s |-> {39, 40, 59, 60}]

\* The samples that differ from smp in one signal, which they have higher.
RaisedInOneSignal(smp) ==
  UNION {{[smp EXCEPT ![f] = v] : v \in {w \in SignalLevels[f] : w > smp[f]}} :
           f \in DOMAIN SignalLevels}

\* C39: with OK < DROWSY_SOON < ASLEEP, raising any one of closure ratio,
\* pitch average, pitch max, yawn count, yawn duty, droop time or droop duty
\* while the other signals and the pitch threshold stay fixed never lowers
\* the state assessDriverState returns.
C39_SeverityMonotone ==
  (assessed # NotAssessed /\ sample.present) =>
    \A s \in RaisedInOneSignal(sample) :
      Severity(assessDriverState(s).state) >= Severity(assessed.state)

\* A sample that was assessed OK and that a higher droop duty alone takes to
\* ASLEEP.
C39_Witness ==
  /\ assessed.state = "OK"
  /\ sample.present
  /\ sample.droop_duty_30s = 39
  /\ assessDriverState([sample EXCEPT !.droop_duty_30s = 60]).state = "ASLEEP"

\* The seconds a label part MM:SS stands for.
SecondsOf(label) == label.minutes * 60 + label.seconds

\* C40: for every alert, under every completion order and every pattern of
\* failed windows, the end of the alert's timeInterval is the timestamp of
\* the window the alert was derived from: the window requested for k *
\* interval is labelled (k-1) * interval to k * interval.
C40_LabelMatchesWindow ==
  Rendered =>
    \A b \in NonOkWindows :
      /\ SecondsOf(truckAlerts[Rank(b)].timeInterval.end) = windows[b].ts_end
      /\ SecondsOf(truckAlerts[Rank(b)].timeInterval.start)
           = windows[b].ts_end - SAMPLE_INTERVAL_SECONDS_30

====
